---- MODULE Spec2Model ----
(***************************************************************************)
(* OpenBlink WebIDE firmware deployment over Bluetooth Low Energy          *)
(* (web-ide/blink.js) with the CRC16 unit it uses.                         *)
(*                                                                         *)
(* The state is the script's globals (programCharacteristic,               *)
(* negotiatedMtuCharacteristic, negotiatedMTU), the activation record of   *)
(* every sendFirmware call (sess), the operations handed to the transport  *)
(* with the state of the promise each returned (log), and the lines given  *)
(* to appendToConsole (console).  Every action is one run-to-completion    *)
(* step of the event loop: an event handler, or the continuation of an     *)
(* await once the awaited promise settles.                                 *)
(***************************************************************************)
EXTENDS Integers, Sequences, FiniteSets, TLC

\* ------------------------------------------------------------ constants
DATA_HEADER_SIZE == 6
PROGRAM_HEADER_SIZE == 8
DEFAULT_MTU == 20
REQUESTED_MTU == 512
\* version byte of every frame (0x01)
VERSION == 1
\* slot written into the Program frame
SLOT == 2
\* crc16_reflect(0xd175, 0xffff, mrbContent)
CRC_POLY == 53621
CRC_SEED == 65535
\* DataView.setUint16 stores its argument modulo 2^16
U16 == 65536
\* DataView.setUint8 stores its argument modulo 2^8
U8 == 256
\* "D", "P", "L", "R".charCodeAt(0)
TAG_D == 68
TAG_P == 80
TAG_L == 76
TAG_R == 82
\* overhead subtracted from the device-reported MTU
ATT_OVERHEAD == 3

\* --------------------------------------------------------------- bounds
\* longest firmware buffer of the main specification
MaxLen == 4
\* events of one behaviour beyond its first connection and its first
\* sendFirmware call: further connections, further calls, soft resets
MaxExtra == 1
\* Data frames followed through a loop whose offset does not advance
MaxStall == 2
\* bytes of the oversized firmware buffer in its last chunk
ExtraLen == 1
MaxCrcLen == 2

\* the number of definePixelsAPI calls that are followed
MaxDefines == 3

\* the number of runBytecode calls and of chosen files that are followed
MaxRuns == 3
MaxFiles == 2

\* the number of switchBoard and of registerBoard calls that are followed
MaxSwitches == 3
MaxRegisters == 2

\* values the transport grants to requestMTU(512)
GrantedMTUs == {6, 8}
\* values of the device's negotiated-MTU characteristic (uint16)
DeviceMTUs == {8, 10}
\* the devices connected to: a GATT server with requestMTU and a program
\* characteristic with writeWithoutResponse, or one with neither
DeviceKinds ==
    {[requestMTU |-> TRUE, writeWithoutResponse |-> TRUE],
     [requestMTU |-> FALSE, writeWithoutResponse |-> FALSE]}
\* buffer lengths the compiler produces in the main specification
SmallLens == 0..MaxLen

\* arguments of crc16_reflect called on its own: polynomials and seeds of
\* 16 bits, and the byte buffers of up to MaxCrcLen bytes over CrcBytes,
\* with the nine ASCII digits "123456789"
CrcPolys == {53621, 33800, 40961, 0, 65535}
CrcSeeds == {65535, 0, 7439, 1}
CrcBytes == {0, 1, 49, 128, 255}
Digits == <<49, 50, 51, 52, 53, 54, 55, 56, 57>>
CrcBuffers ==
    UNION {[1..n -> CrcBytes] : n \in 0..MaxCrcLen} \cup {Digits}

Min(a, b) == IF a < b THEN a ELSE b
Max(a, b) == IF a > b THEN a ELSE b

\* The bytes of the compiled firmware of length n: pairwise distinct over any
\* 251 consecutive positions and different at two positions 2^16 apart, so
\* that a misplaced byte is visible.
ByteAt(i) == ((i % 251) * 37 + 11) % U8
Firmware(n) == [i \in 1..n |-> ByteAt(i)]

\* ---------------------------------------------------------------- CRC16
\* one bit of a ^ b, at the place of weight k
XorBit(a, b, k) == (((a \div k) + (b \div k)) % 2) * k

\* a ^ b on operands below 2^16
BitXor(a, b) ==
    XorBit(a, b, 1) + XorBit(a, b, 2) + XorBit(a, b, 4) + XorBit(a, b, 8)
    + XorBit(a, b, 16) + XorBit(a, b, 32) + XorBit(a, b, 64)
    + XorBit(a, b, 128) + XorBit(a, b, 256) + XorBit(a, b, 512)
    + XorBit(a, b, 1024) + XorBit(a, b, 2048) + XorBit(a, b, 4096)
    + XorBit(a, b, 8192) + XorBit(a, b, 16384) + XorBit(a, b, 32768)

\* (mutant) the polynomial is never folded in
CrcShiftOnly(crc, poly) == crc \div 2

\* the body of the inner loop: one shift, with the polynomial folded in when
\* the low bit was set
CrcShift(crc, poly) ==
    IF crc % 2 = 1 THEN BitXor(crc \div 2, poly) ELSE crc \div 2

\* for (j = 0; j < 8; j++) { ... }
RECURSIVE CrcBits(_, _, _)
CrcBits(crc, poly, j) ==
    IF j >= 8 THEN crc ELSE CrcBits(CrcShift(crc, poly), poly, j + 1)

\* crc ^= src[i]; then the eight shifts
CrcByte(crc, poly, byte) == CrcBits(BitXor(crc, byte), poly, 0)

\* The loop over the bytes is a left fold of CrcByte from seed over
\* src[1], ..., src[n]; it is evaluated over halves of the index range, in
\* the same order, to keep the evaluation depth logarithmic in n.
crc16_reflect(poly, seed, src) ==
    LET loop[crc \in Nat, lo \in Nat, hi \in Nat] ==
            IF lo > hi THEN crc
            ELSE IF lo = hi THEN CrcByte(crc, poly, src[lo])
            ELSE loop[loop[crc, lo, (lo + hi) \div 2],
                      ((lo + hi) \div 2) + 1, hi]
    IN  loop[seed, 1, Len(src)] % U16

\* --------------------------------------------------------------- frames
\* DataView.setUint8(v): the stored byte
Uint8(v) == v % U8
\* (mutant) the high byte is stored first
Uint16LoBigEndian(v) == (v % U16) \div U8

\* DataView.setUint16(v, true): the two stored bytes, little-endian
Uint16Lo(v) == (v % U16) % U8
Uint16Hi(v) == (v % U16) \div U8

\* Uint8Array.subarray(begin, end): both ends clamped to the array
subarray(arr, begin, end) ==
    SubSeq(arr, Max(begin, 0) + 1, Min(end, Len(arr)))

\* sendReset's buffer
ResetFrame == <<Uint8(VERSION), Uint8(TAG_R)>>

\* sendReload's buffer
ReloadFrame == <<Uint8(VERSION), Uint8(TAG_L)>>

\* the Data frame of one loop iteration of sendFirmware: a zeroed buffer of
\* 6 + chunkDataSize bytes, the header stored into it, and the slice of
\* mrbContent copied behind the header
DataFrame(mrbContent, offset, chunkDataSize) ==
    LET slice == subarray(mrbContent, offset, offset + chunkDataSize)
    IN  <<Uint8(VERSION), Uint8(TAG_D),
          Uint16Lo(offset), Uint16Hi(offset),
          Uint16Lo(chunkDataSize), Uint16Hi(chunkDataSize)>>
        \o [i \in 1..chunkDataSize |->
               IF i <= Len(slice) THEN slice[i] ELSE 0]

\* the Program frame of sendFirmware
ProgramFrame(contentLength, crc16, slot) ==
    <<Uint8(VERSION), Uint8(TAG_P),
      Uint16Lo(contentLength), Uint16Hi(contentLength),
      Uint16Lo(crc16), Uint16Hi(crc16),
      Uint8(slot), Uint8(0)>>

\* const DATA_PAYLOAD_SIZE = negotiatedMTU - DATA_HEADER_SIZE
PayloadSize(mtu) == mtu - DATA_HEADER_SIZE

\* (mutant) every chunk is given the full payload size
ChunkDataSizeFull(payloadSize, contentLength, offset) == payloadSize

\* const chunkDataSize = Math.min(DATA_PAYLOAD_SIZE, contentLength - offset)
ChunkDataSize(payloadSize, contentLength, offset) ==
    Min(payloadSize, contentLength - offset)

\* The oversized buffer: at the requested MTU its last chunk, of ExtraLen
\* bytes, starts at the first chunk boundary at or beyond 2^16.
LargeLen ==
    ((U16 \div PayloadSize(REQUESTED_MTU)) + 1) * PayloadSize(REQUESTED_MTU)
    + ExtraLen

\* (mutant) the offset advances by one byte too many
NextOffsetSkips(offset, payloadSize) == offset + payloadSize + 1

\* offset += DATA_PAYLOAD_SIZE
NextOffset(offset, payloadSize) == offset + payloadSize

\* (mutant) the loop test lets the offset reach the length
LoopContinuesAtEnd(offset, contentLength) == offset <= contentLength

\* for (...; offset < contentLength; ...)
LoopContinues(offset, contentLength) == offset < contentLength

\* new ArrayBuffer(6 + chunkDataSize) and the header stores into it throw a
\* RangeError exactly when the buffer is shorter than the 6-byte header
BufferTooShort(chunkDataSize) == DATA_HEADER_SIZE + chunkDataSize < DATA_HEADER_SIZE

\* ---------------------------------------------------------------- state
VARIABLES
    \* let programCharacteristic: 0 while undefined, else the connection
    \* whose program characteristic it is
    programCharacteristic,
    \* let negotiatedMtuCharacteristic: likewise
    negotiatedMtuCharacteristic,
    \* let negotiatedMTU
    negotiatedMTU,
    \* the connections made so far: what each one's GATT server and program
    \* characteristic support
    conns,
    \* the sendFirmware calls made so far, each with its locals
    sess,
    \* every operation handed to the transport, in call order, with the
    \* state of the promise it returned
    log,
    \* the lines given to appendToConsole, in order
    console,
    \* a call of crc16_reflect on its own: its arguments, and its return
    \* value once it has returned
    crcCall,
    \* let registeredCallbacks, currentPixelsInstance, currentApi of the
    \* board's API definitions (0 for null)
    registeredCallbacks, currentPixelsInstance, currentApi,
    \* the mruby/c module: the function pointers in its function table, the
    \* callbacks its Pixels class has for 'set' and 'update' (0: not
    \* defined), the instances that are allocated, and the value of the
    \* global constant PIXELS (0: not set)
    functionTable, classMethods, liveInstances, PIXELS,
    \* the call of definePixelsAPI under way: where it is and its locals;
    \* and the number of calls that have returned
    defineCall, defineCount,
    \* let mrubycModule, isRunning, boardLoader, customBytecode of the
    \* simulator page (0 for null) and its two run buttons
    mrubycModule, isRunning, boardLoader, customBytecode,
    runSampleBtn, runCustomBtn,
    \* where initModule is; the calls of runBytecode, in the order they
    \* were made; the buffers allocated in the module's heap; the
    \* FileReaders that are reading; the number of files chosen
    initPc, runCalls, heap, readers, fileChanges,
    \* the board loader's availableBoards, currentBoard, currentBoardId
    \* (Null for null and undefined) and loadedScripts; the script elements
    \* in the document; window.BOARD_CONFIG and whether
    \* window.createBoardUI is a function; the calls of switchBoard; the
    \* number of registerBoard calls
    availableBoards, currentBoard, currentBoardId, loadedScripts,
    documentScripts, window, switchCalls, registerCount

\* the variables of the web IDE's deployment protocol
bleVars == <<programCharacteristic, negotiatedMtuCharacteristic,
             negotiatedMTU, conns, sess, log, console>>

\* the variables of the board's API definitions and the mruby/c module
pixelsVars == <<registeredCallbacks, currentPixelsInstance, currentApi,
                functionTable, classMethods, liveInstances, PIXELS,
                defineCall, defineCount>>

\* the variables of the simulator's page script
appVars == <<mrubycModule, isRunning, boardLoader, customBytecode,
             runSampleBtn, runCustomBtn, initPc, runCalls, heap, readers,
             fileChanges>>

\* the variables of the board loader and of what its scripts export
boardVars == <<availableBoards, currentBoard, currentBoardId,
               loadedScripts, documentScripts, window, switchCalls,
               registerCount>>

\* the variables of the simulator page
simulatorVars == <<pixelsVars, appVars, boardVars>>

vars == <<programCharacteristic, negotiatedMtuCharacteristic, negotiatedMTU,
          conns, sess, log, console, crcCall, simulatorVars>>

\* no call of crc16_reflect on its own is under way
NoCrcCall == [poly |-> 0, seed |-> 0, src |-> <<>>, pc |-> "none", crc |-> 0]

\* a line of the console: the message and the numbers formatted into it
Line(msg, sid, args) == [msg |-> msg, sid |-> sid, args |-> args]

\* the entry of an operation just handed to the transport; `value` is what
\* its promise resolves with, when a caller reads that
Op(op, ch, sid, bytes) ==
    [op |-> op, ch |-> ch, sid |-> sid, bytes |-> bytes, result |-> "pending",
     value |-> <<>>]

IsWrite(e) == e.op \in {"writeValue", "writeValueWithoutResponse"}
Tag(e) == e.bytes[2]

\* writeCharacteristic(characteristic, buffer): the entry it adds
writeCharacteristic(characteristic, sid, buffer) ==
    Op(IF conns[characteristic].writeWithoutResponse
       THEN "writeValueWithoutResponse" ELSE "writeValue",
       characteristic, sid, buffer)

\* the promise of entry i settles
Settle(lg, i, result) == [lg EXCEPT ![i].result = result]

\* the promise of entry i resolves with a value
Resolve(lg, i, value) ==
    [lg EXCEPT ![i].result = "ok", ![i].value = <<value>>]

\* the number of Data frames sendFirmware call sid has handed over
DataCount(lg, sid) ==
    Cardinality({i \in 1..Len(lg) :
                   IsWrite(lg[i]) /\ lg[i].sid = sid /\ Tag(lg[i]) = TAG_D})

\* the number of clicks on soft-reset so far
Resets ==
    Cardinality({i \in 1..Len(console) :
                   console[i].msg \in {"Send [R]eset Complete",
                                       "Send [R]eset Error:"}})

\* the events so far beyond the first connection and the first call
Extras == Max(Len(conns) - 1, 0) + Max(Len(sess) - 1, 0) + Resets

\* a loop whose offset does not advance is followed for MaxStall frames
StallBound(sid, r) ==
    (r.f.pc = "data" /\ r.f.DATA_PAYLOAD_SIZE < 1)
        => DataCount(r.log, sid) <= MaxStall

\* no call of definePixelsAPI is under way
NoDefineCall ==
    [pc |-> "idle", oldCallbacks |-> <<>>, setPixelCallback |-> 0,
     updateCallback |-> 0, pixelsInstance |-> 0]

\* the API definitions as their script leaves them, and a module in which
\* nothing has been defined
InitPixels ==
    /\ registeredCallbacks = <<>>
    /\ currentPixelsInstance = 0
    /\ currentApi = 0
    /\ functionTable = {}
    /\ classMethods = [set |-> 0, update |-> 0]
    /\ liveInstances = {}
    /\ PIXELS = 0
    /\ defineCall = NoDefineCall
    /\ defineCount = 0

\* the page script as it leaves its globals, before initModule's first
\* await has resolved; both run buttons start disabled
InitApp ==
    /\ mrubycModule = 0
    /\ isRunning = FALSE
    /\ boardLoader = 0
    /\ customBytecode = 0
    /\ runSampleBtn = [disabled |-> TRUE]
    /\ runCustomBtn = [disabled |-> TRUE]
    /\ initPc = "createModule"
    /\ runCalls = <<>>
    /\ heap = {}
    /\ readers = 0
    /\ fileChanges = 0

\* null or undefined, where the other values are strings
Null == "null"

\* a BoardLoader as its constructor leaves it, in a document without
\* board scripts
InitBoard ==
    /\ availableBoards =
           <<[id |-> "xiao-nrf54l15", path |-> "boards/xiao-nrf54l15"]>>
    /\ currentBoard = Null
    /\ currentBoardId = Null
    /\ loadedScripts = <<>>
    /\ documentScripts = {}
    /\ window = [BOARD_CONFIG |-> Null, createBoardUI |-> FALSE]
    /\ switchCalls = <<>>
    /\ registerCount = 0

InitSimulator == InitPixels /\ InitApp /\ InitBoard

Init ==
    /\ programCharacteristic = 0
    /\ negotiatedMtuCharacteristic = 0
    /\ negotiatedMTU = DEFAULT_MTU
    /\ conns = <<>>
    /\ sess = <<>>
    /\ log = <<>>
    /\ console = <<>>
    /\ crcCall = NoCrcCall
    /\ InitSimulator

\* ---------------------------------------------------------- negotiation
\* negotiateMTU() up to its await: the operation it starts
negotiateMTU ==
    IF conns'[programCharacteristic'].requestMTU
    THEN Op("requestMTU", programCharacteristic', 0, <<REQUESTED_MTU>>)
    ELSE Op("readValue", negotiatedMtuCharacteristic', 0, <<>>)

\* the last .then of the connect chain: the characteristics of a new
\* connection are published and negotiateMTU() is called, not awaited
Connect(requestMTU, writeWithoutResponse) ==
    /\ Len(conns) = 0 \/ Extras < MaxExtra
    /\ conns' = Append(conns, [requestMTU |-> requestMTU,
                               writeWithoutResponse |-> writeWithoutResponse])
    /\ programCharacteristic' = Len(conns) + 1
    /\ negotiatedMtuCharacteristic' = Len(conns) + 1
    /\ log' = Append(log, negotiateMTU)
    /\ UNCHANGED <<crcCall, simulatorVars, negotiatedMTU, sess, console>>

\* negotiatedMTU = await gattServer.requestMTU(REQUESTED_MTU)
RequestMTUGranted(i, granted) ==
    /\ log[i].op = "requestMTU" /\ log[i].result = "pending"
    /\ negotiatedMTU' = granted
    /\ log' = Resolve(log, i, granted)
    /\ UNCHANGED <<crcCall, simulatorVars, programCharacteristic, negotiatedMtuCharacteristic,
                   conns, sess, console>>

\* (mutant) the catch leaves negotiatedMTU as it was
RequestMTUFailedKeeps(i) ==
    /\ log[i].op = "requestMTU" /\ log[i].result = "pending"
    /\ log' = Settle(log, i, "failed")
    /\ UNCHANGED <<crcCall, simulatorVars, programCharacteristic, negotiatedMtuCharacteristic,
                   negotiatedMTU, conns, sess, console>>

\* the catch of the requestMTU branch
RequestMTUFailed(i) ==
    /\ log[i].op = "requestMTU" /\ log[i].result = "pending"
    /\ negotiatedMTU' = DEFAULT_MTU
    /\ log' = Settle(log, i, "failed")
    /\ UNCHANGED <<crcCall, simulatorVars, programCharacteristic, negotiatedMtuCharacteristic,
                   conns, sess, console>>

\* (mutant) the device's value is taken as it is
ReadValueDoneAsIs(i, devicemtu) ==
    /\ log[i].op = "readValue" /\ log[i].result = "pending"
    /\ negotiatedMTU' = devicemtu
    /\ log' = Resolve(log, i, devicemtu)
    /\ UNCHANGED <<crcCall, simulatorVars, programCharacteristic, negotiatedMtuCharacteristic,
                   conns, sess, console>>

\* devicemtu = valueDataView.getUint16(0, true); negotiatedMTU = devicemtu - 3
ReadValueDone(i, devicemtu) ==
    /\ log[i].op = "readValue" /\ log[i].result = "pending"
    /\ negotiatedMTU' = devicemtu - ATT_OVERHEAD
    /\ log' = Resolve(log, i, devicemtu)
    /\ UNCHANGED <<crcCall, simulatorVars, programCharacteristic, negotiatedMtuCharacteristic,
                   conns, sess, console>>

\* the catch of the readValue branch: negotiatedMTU keeps its value
ReadValueFailed(i) ==
    /\ log[i].op = "readValue" /\ log[i].result = "pending"
    /\ log' = Settle(log, i, "failed")
    /\ UNCHANGED <<crcCall, simulatorVars, programCharacteristic, negotiatedMtuCharacteristic,
                   negotiatedMTU, conns, sess, console>>

\* --------------------------------------------------------- sendFirmware
\* (mutant) each chunk is cut by the value negotiatedMTU has at that time
RunLoopRenegotiates(sid, f, offset, lg, con) ==
    IF LoopContinues(offset, f.contentLength)
    THEN LET chunkDataSize ==
                 ChunkDataSize(PayloadSize(negotiatedMTU), f.contentLength,
                               offset)
         IN  IF BufferTooShort(chunkDataSize)
             THEN [f |-> [f EXCEPT !.offset = offset, !.pc = "returned",
                                   !.outcome = "rejected"],
                   log |-> lg,
                   console |-> Append(con, Line("Sending bytecode Error:",
                                                sid, <<>>))]
             ELSE [f |-> [f EXCEPT !.offset = offset, !.pc = "data"],
                   log |-> Append(lg, writeCharacteristic(
                               programCharacteristic, sid,
                               DataFrame(f.mrbContent, offset, chunkDataSize))),
                   console |-> con]
    ELSE [f |-> [f EXCEPT !.offset = offset, !.pc = "program"],
          log |-> Append(lg, writeCharacteristic(
                      programCharacteristic, sid,
                      ProgramFrame(f.contentLength, f.crc16, f.slot))),
          console |-> con]

\* sendFirmware call sid with locals f runs from the loop test at `offset`
\* to its next await, or to its end: the locals, the log and the console
\* it leaves.  A RangeError thrown while the frame is built rejects the
\* call's promise, which the caller's .catch reports.
RunLoop(sid, f, offset, lg, con) ==
    IF LoopContinues(offset, f.contentLength)
    THEN LET chunkDataSize ==
                 ChunkDataSize(f.DATA_PAYLOAD_SIZE, f.contentLength, offset)
         IN  IF BufferTooShort(chunkDataSize)
             THEN [f |-> [f EXCEPT !.offset = offset, !.pc = "returned",
                                   !.outcome = "rejected"],
                   log |-> lg,
                   console |-> Append(con, Line("Sending bytecode Error:",
                                                sid, <<>>))]
             ELSE [f |-> [f EXCEPT !.offset = offset, !.pc = "data"],
                   log |-> Append(lg, writeCharacteristic(
                               programCharacteristic, sid,
                               DataFrame(f.mrbContent, offset, chunkDataSize))),
                   console |-> con]
    ELSE [f |-> [f EXCEPT !.offset = offset, !.pc = "program"],
          log |-> Append(lg, writeCharacteristic(
                      programCharacteristic, sid,
                      ProgramFrame(f.contentLength, f.crc16, f.slot))),
          console |-> con]

\* sendFirmware(mrbContent) up to its first await, as call number sid.
\* (Each local is bound once, as the code computes it once.)
sendFirmware(sid, mrbContent) ==
    \E contentLength \in {Len(mrbContent)},
       crc16 \in {crc16_reflect(CRC_POLY, CRC_SEED, mrbContent)} :
    \E f \in {[mrbContent |-> mrbContent, contentLength |-> contentLength,
               crc16 |-> crc16, slot |-> SLOT,
               DATA_PAYLOAD_SIZE |-> PayloadSize(negotiatedMTU),
               offset |-> 0, pc |-> "start", outcome |-> "pending"]} :
    \E r \in {RunLoop(sid, f, 0, log,
                      Append(console,
                             Line("Sending bytecode:", sid,
                                  <<SLOT, contentLength, crc16,
                                    negotiatedMTU>>)))} :
        /\ StallBound(sid, r)
        /\ sess' = Append(sess, r.f)
        /\ log' = r.log
        /\ console' = r.console

\* the click handler of run-main: the editor's text is compiled to a buffer
\* of length n and handed to sendFirmware when a program characteristic is
\* there
RunMainClick(n) ==
    /\ Len(sess) = 0 \/ Extras < MaxExtra
    /\ IF programCharacteristic = 0
       THEN UNCHANGED <<sess, log, console>>
       ELSE \E mrbContent \in {Firmware(n)} :
                sendFirmware(Len(sess) + 1, mrbContent)
    /\ UNCHANGED <<crcCall, simulatorVars, programCharacteristic, negotiatedMtuCharacteristic,
                   negotiatedMTU, conns>>

\* sendReload() up to its await: called by sendFirmware, not awaited
sendReload(sid) == writeCharacteristic(programCharacteristic, sid, ReloadFrame)

\* the promise of write i resolves and the call awaiting it continues
WriteOk(i) ==
    /\ IsWrite(log[i]) /\ log[i].result = "pending" /\ log[i].sid # 0
    /\ LET sid == log[i].sid
           f == sess[sid]
           lg == Settle(log, i, "ok")
       IN  CASE Tag(log[i]) = TAG_D ->
                  \E r \in {RunLoop(sid, f,
                               NextOffset(f.offset, f.DATA_PAYLOAD_SIZE), lg,
                               Append(console, Line("Send [D]ata Ok:", sid,
                                   <<f.offset,
                                     ChunkDataSize(f.DATA_PAYLOAD_SIZE,
                                         f.contentLength, f.offset)>>)))} :
                      /\ StallBound(sid, r)
                      /\ sess' = [sess EXCEPT ![sid] = r.f]
                      /\ log' = r.log
                      /\ console' = r.console
             [] Tag(log[i]) = TAG_P ->
                  /\ sess' = [sess EXCEPT ![sid].pc = "returned",
                                          ![sid].outcome = "resolved"]
                  /\ log' = Append(lg, sendReload(sid))
                  /\ console' = console
                        \o <<Line("Send [P]rogram Complete", sid, <<>>),
                             Line("Sending bytecode: Complete!", sid, <<>>)>>
             [] Tag(log[i]) = TAG_L ->
                  /\ log' = lg
                  /\ console' = Append(console,
                                   Line("Send re[L]oad Complete", sid, <<>>))
                  /\ UNCHANGED sess
    /\ UNCHANGED <<crcCall, simulatorVars, programCharacteristic, negotiatedMtuCharacteristic,
                   negotiatedMTU, conns>>

\* (mutant) a failed Data write is tried again instead of ending the call
WriteFailRetries(i) ==
    /\ IsWrite(log[i]) /\ log[i].result = "pending" /\ log[i].sid # 0
    /\ Tag(log[i]) = TAG_D
    /\ log' = Append(Settle(log, i, "failed"),
                     writeCharacteristic(programCharacteristic, log[i].sid,
                                         log[i].bytes))
    /\ console' = Append(console,
                         Line("Send [D]ata Error:", log[i].sid,
                              <<sess[log[i].sid].offset>>))
    /\ UNCHANGED <<crcCall, simulatorVars, programCharacteristic, negotiatedMtuCharacteristic,
                   negotiatedMTU, conns, sess>>

\* (mutant) a failed Program write is followed by the Reload frame
WriteFailReloads(i) ==
    /\ IsWrite(log[i]) /\ log[i].result = "pending" /\ log[i].sid # 0
    /\ Tag(log[i]) = TAG_P
    /\ sess' = [sess EXCEPT ![log[i].sid].pc = "returned",
                            ![log[i].sid].outcome = "resolved"]
    /\ log' = Append(Settle(log, i, "failed"), sendReload(log[i].sid))
    /\ console' = Append(console,
                         Line("Send [P]rogram Error:", log[i].sid, <<>>))
    /\ UNCHANGED <<crcCall, simulatorVars, programCharacteristic,
                   negotiatedMtuCharacteristic, negotiatedMTU, conns>>

\* (mutant) a failed Reload write is tried again
WriteFailReloadAgain(i) ==
    /\ IsWrite(log[i]) /\ log[i].result = "pending" /\ log[i].sid # 0
    /\ Tag(log[i]) = TAG_L
    /\ log' = Append(Settle(log, i, "failed"), sendReload(log[i].sid))
    /\ console' = Append(console,
                         Line("Send re[L]oad Error:", log[i].sid, <<>>))
    /\ UNCHANGED <<crcCall, simulatorVars, programCharacteristic,
                   negotiatedMtuCharacteristic, negotiatedMTU, conns, sess>>

\* the promise of write i rejects and the catch around the await runs
WriteFail(i) ==
    /\ IsWrite(log[i]) /\ log[i].result = "pending" /\ log[i].sid # 0
    /\ LET sid == log[i].sid
           f == sess[sid]
       IN  CASE Tag(log[i]) = TAG_D ->
                  /\ sess' = [sess EXCEPT ![sid].pc = "returned",
                                          ![sid].outcome = "resolved"]
                  /\ console' = console
                        \o <<Line("Send [D]ata Error:", sid, <<f.offset>>),
                             Line("Sending bytecode: Complete!", sid, <<>>)>>
             [] Tag(log[i]) = TAG_P ->
                  /\ sess' = [sess EXCEPT ![sid].pc = "returned",
                                          ![sid].outcome = "resolved"]
                  /\ console' = console
                        \o <<Line("Send [P]rogram Error:", sid, <<>>),
                             Line("Sending bytecode: Complete!", sid, <<>>)>>
             [] Tag(log[i]) = TAG_L ->
                  /\ console' = Append(console,
                                   Line("Send re[L]oad Error:", sid, <<>>))
                  /\ UNCHANGED sess
    /\ log' = Settle(log, i, "failed")
    /\ UNCHANGED <<crcCall, simulatorVars, programCharacteristic, negotiatedMtuCharacteristic,
                   negotiatedMTU, conns>>

\* ------------------------------------------------------------ sendReset
\* (mutant) soft-reset also puts negotiatedMTU back to the default
SendResetClearsMtu ==
    /\ Extras < MaxExtra
    /\ programCharacteristic # 0
    /\ log' = Append(log, Op("writeValue", programCharacteristic,
                             0, ResetFrame))
    /\ console' = Append(console, Line("Send [R]eset Complete", 0, <<>>))
    /\ negotiatedMTU' = DEFAULT_MTU
    /\ UNCHANGED <<crcCall, simulatorVars, programCharacteristic,
                   negotiatedMtuCharacteristic, conns, sess>>

\* the click handler of soft-reset: sendReset() writes without awaiting;
\* with no program characteristic the call throws into the catch.  The
\* promise of the write is dropped: nothing runs when it settles.
SendReset ==
    /\ Extras < MaxExtra
    /\ IF programCharacteristic = 0
       THEN /\ console' = Append(console,
                              Line("Send [R]eset Error:", 0, <<>>))
            /\ UNCHANGED log
       ELSE /\ log' = Append(log, Op("writeValue", programCharacteristic,
                                     0, ResetFrame))
            /\ console' = Append(console,
                              Line("Send [R]eset Complete", 0, <<>>))
    /\ UNCHANGED <<crcCall, simulatorVars, programCharacteristic, negotiatedMtuCharacteristic,
                   negotiatedMTU, conns, sess>>

\* ------------------------------------------------------- specifications
Step ==
    \/ \E k \in DeviceKinds :
           Connect(k.requestMTU, k.writeWithoutResponse)
    \/ \E i \in 1..Len(log), granted \in GrantedMTUs :
           RequestMTUGranted(i, granted)
    \/ \E i \in 1..Len(log) : RequestMTUFailed(i)
    \/ \E i \in 1..Len(log), devicemtu \in DeviceMTUs :
           ReadValueDone(i, devicemtu)
    \/ \E i \in 1..Len(log) : ReadValueFailed(i)
    \/ \E n \in SmallLens : RunMainClick(n)
    \/ \E i \in 1..Len(log) : WriteOk(i)
    \/ \E i \in 1..Len(log) : WriteFail(i)
    \/ SendReset

Next == Step

Spec == Init /\ [][Next]_vars

\* One deployment of a firmware buffer of LargeLen bytes, longer than a
\* 16-bit length field can say, to a device that grants the requested MTU.
StepLarge ==
    \/ Len(conns) = 0 /\ Connect(TRUE, TRUE)
    \/ \E i \in 1..Len(log) : RequestMTUGranted(i, REQUESTED_MTU)
    \/ /\ negotiatedMTU = REQUESTED_MTU
       /\ Len(sess) = 0
       /\ RunMainClick(LargeLen)
    \/ \E i \in 1..Len(log) : WriteOk(i)
    \/ \E i \in 1..Len(log) : WriteFail(i)

SpecLarge == Init /\ [][StepLarge]_vars

\* crc16_reflect called on its own, with arguments of 16 bits and a byte
\* buffer: the call returns its value.
InitCrc ==
    /\ programCharacteristic = 0
    /\ negotiatedMtuCharacteristic = 0
    /\ negotiatedMTU = DEFAULT_MTU
    /\ conns = <<>>
    /\ sess = <<>>
    /\ log = <<>>
    /\ console = <<>>
    /\ InitSimulator
    /\ crcCall \in {[poly |-> poly, seed |-> seed, src |-> src,
                     pc |-> "called", crc |-> 0] :
                       poly \in CrcPolys, seed \in CrcSeeds,
                       src \in CrcBuffers}

Crc16Returns ==
    /\ crcCall.pc = "called"
    /\ crcCall' = [crcCall EXCEPT
                      !.pc = "returned",
                      !.crc = crc16_reflect(crcCall.poly, crcCall.seed,
                                            crcCall.src)]
    /\ UNCHANGED <<bleVars, simulatorVars>>

SpecCrc == InitCrc /\ [][Crc16Returns]_vars

\* -------------------------------------------- the board's Pixels API
\* definePixelsAPI of the board's API definitions, one step for each call
\* it makes into the mruby/c module. addFunction returns a pointer that
\* is not in the function table; instanceNew returns an instance that is
\* not allocated, or 0 when the allocation fails.
FunctionSlots == 1 .. 2 * MaxDefines

InstanceSlots == 1 .. MaxDefines

\* a definePixelsAPI that removes the registered callbacks on entry, as
\* cleanupPixelsAPI would
DefinePixelsAPICleansFirst ==
    /\ defineCall.pc = "idle"
    /\ defineCount < MaxDefines
    /\ IF currentPixelsInstance # 0 /\ currentApi # 0
         THEN /\ liveInstances' = liveInstances \ {currentPixelsInstance}
              /\ currentPixelsInstance' = 0
         ELSE UNCHANGED <<liveInstances, currentPixelsInstance>>
    /\ currentApi' = 1
    /\ functionTable' = functionTable \
            {registeredCallbacks[i] : i \in DOMAIN registeredCallbacks}
    /\ registeredCallbacks' = <<>>
    /\ defineCall' = [NoDefineCall EXCEPT !.pc = "addSet"]
    /\ UNCHANGED <<classMethods, PIXELS, defineCount>>

\* definePixelsAPI is entered (it is called at each task creation): the
\* previous instance is freed, the registered callbacks are kept aside as
\* oldCallbacks
DefinePixelsAPI ==
    /\ defineCall.pc = "idle"
    /\ defineCount < MaxDefines
    /\ IF currentPixelsInstance # 0 /\ currentApi # 0
         THEN /\ liveInstances' = liveInstances \ {currentPixelsInstance}
              /\ currentPixelsInstance' = 0
         ELSE UNCHANGED <<liveInstances, currentPixelsInstance>>
    /\ currentApi' = 1
    /\ registeredCallbacks' = <<>>
    /\ defineCall' = [NoDefineCall EXCEPT
                        !.pc = "addSet",
                        !.oldCallbacks = registeredCallbacks]
    /\ UNCHANGED <<functionTable, classMethods, PIXELS, defineCount>>

\* setPixelCallback = api.addFunction(...); registeredCallbacks.push
AddSetCallback ==
    /\ defineCall.pc = "addSet"
    /\ \E p \in FunctionSlots \ functionTable :
        /\ functionTable' = functionTable \cup {p}
        /\ registeredCallbacks' = Append(registeredCallbacks, p)
        /\ defineCall' = [defineCall EXCEPT !.pc = "defineSet",
                                            !.setPixelCallback = p]
    /\ UNCHANGED <<currentPixelsInstance, currentApi, classMethods,
                   liveInstances, PIXELS, defineCount>>

\* api.defineMethod(pixelsClass, 'set', setPixelCallback)
DefineSetMethod ==
    /\ defineCall.pc = "defineSet"
    /\ classMethods' = [classMethods EXCEPT
                          !.set = defineCall.setPixelCallback]
    /\ defineCall' = [defineCall EXCEPT !.pc = "addUpdate"]
    /\ UNCHANGED <<registeredCallbacks, currentPixelsInstance, currentApi,
                   functionTable, liveInstances, PIXELS, defineCount>>

\* updateCallback = api.addFunction(...); registeredCallbacks.push
AddUpdateCallback ==
    /\ defineCall.pc = "addUpdate"
    /\ \E p \in FunctionSlots \ functionTable :
        /\ functionTable' = functionTable \cup {p}
        /\ registeredCallbacks' = Append(registeredCallbacks, p)
        /\ defineCall' = [defineCall EXCEPT !.pc = "defineUpdate",
                                            !.updateCallback = p]
    /\ UNCHANGED <<currentPixelsInstance, currentApi, classMethods,
                   liveInstances, PIXELS, defineCount>>

\* api.defineMethod(pixelsClass, 'update', updateCallback)
DefineUpdateMethod ==
    /\ defineCall.pc = "defineUpdate"
    /\ classMethods' = [classMethods EXCEPT
                          !.update = defineCall.updateCallback]
    /\ defineCall' = [defineCall EXCEPT !.pc = "instanceNew"]
    /\ UNCHANGED <<registeredCallbacks, currentPixelsInstance, currentApi,
                   functionTable, liveInstances, PIXELS, defineCount>>

\* pixelsInstance = api.instanceNew(pixelsClass), and the branch on it:
\* an instance is tracked as currentPixelsInstance, a failure is logged
InstanceNew ==
    /\ defineCall.pc = "instanceNew"
    /\ \E p \in {0} \cup (InstanceSlots \ liveInstances) :
        IF p # 0
          THEN /\ liveInstances' = liveInstances \cup {p}
               /\ currentPixelsInstance' = p
               /\ defineCall' = [defineCall EXCEPT
                                   !.pc = "setGlobalConst",
                                   !.pixelsInstance = p]
          ELSE /\ defineCall' = [defineCall EXCEPT !.pc = "removeOld"]
               /\ UNCHANGED <<liveInstances, currentPixelsInstance>>
    /\ UNCHANGED <<registeredCallbacks, currentApi, functionTable,
                   classMethods, PIXELS, defineCount>>

\* api.setGlobalConst('PIXELS', pixelsInstance)
SetGlobalConst ==
    /\ defineCall.pc = "setGlobalConst"
    /\ PIXELS' = defineCall.pixelsInstance
    /\ defineCall' = [defineCall EXCEPT !.pc = "removeOld"]
    /\ UNCHANGED <<registeredCallbacks, currentPixelsInstance, currentApi,
                   functionTable, classMethods, liveInstances,
                   defineCount>>

\* one turn of the loop over oldCallbacks: api.removeFunction(callback)
RemoveOldCallback ==
    /\ defineCall.pc = "removeOld"
    /\ defineCall.oldCallbacks # <<>>
    /\ functionTable' = functionTable \ {Head(defineCall.oldCallbacks)}
    /\ defineCall' = [defineCall EXCEPT
                        !.oldCallbacks = Tail(defineCall.oldCallbacks)]
    /\ UNCHANGED <<registeredCallbacks, currentPixelsInstance, currentApi,
                   classMethods, liveInstances, PIXELS, defineCount>>

\* the loop is over and definePixelsAPI returns
DefineReturns ==
    /\ defineCall.pc = "removeOld"
    /\ defineCall.oldCallbacks = <<>>
    /\ defineCall' = NoDefineCall
    /\ defineCount' = defineCount + 1
    /\ UNCHANGED <<registeredCallbacks, currentPixelsInstance, currentApi,
                   functionTable, classMethods, liveInstances, PIXELS>>

otherThanPixels == <<bleVars, crcCall, appVars, boardVars>>

NextPixels ==
    \/ DefinePixelsAPI /\ UNCHANGED otherThanPixels
    \/ AddSetCallback /\ UNCHANGED otherThanPixels
    \/ DefineSetMethod /\ UNCHANGED otherThanPixels
    \/ AddUpdateCallback /\ UNCHANGED otherThanPixels
    \/ DefineUpdateMethod /\ UNCHANGED otherThanPixels
    \/ InstanceNew /\ UNCHANGED otherThanPixels
    \/ SetGlobalConst /\ UNCHANGED otherThanPixels
    \/ RemoveOldCallback /\ UNCHANGED otherThanPixels
    \/ DefineReturns /\ UNCHANGED otherThanPixels

SpecPixels == Init /\ [][NextPixels]_vars

\* ------------------------------------------------- the simulator page
\* The page script of the simulator with boards: initModule, runBytecode,
\* the two run buttons and the bytecode file input. A button that is
\* disabled dispatches no click.
HeapSlots == 1 .. MaxRuns

Button(disabled) == [disabled |-> disabled]

\* one call of runBytecode: where it is, its bytecodePtr, the number of
\* _free calls it has made, and how it ended
RunCall(pc, bytecodePtr, frees, outcome) ==
    [pc |-> pc, bytecodePtr |-> bytecodePtr, frees |-> frees,
     outcome |-> outcome]

\* a runBytecode without the isRunning half of its guard
PassesGuardModuleOnly == mrubycModule # 0

\* if (!mrubycModule || isRunning) return;
PassesGuard == mrubycModule # 0 /\ ~isRunning

\* the finally block of runBytecode, on the buttons and isRunning
Finally ==
    /\ isRunning' = FALSE
    /\ runSampleBtn' = Button(FALSE)
    /\ runCustomBtn' = Button(customBytecode = 0)

\* runBytecode(bytecode) up to its await of ccall: the guard, the flag and
\* the buttons, _malloc (0: the allocation fails, which throws into the
\* catch and the finally block)
runBytecode ==
    /\ Len(runCalls) < MaxRuns
    /\ IF ~PassesGuard
         THEN /\ runCalls' = Append(runCalls,
                                    RunCall("returned", 0, 0, "none"))
              /\ UNCHANGED <<isRunning, runSampleBtn, runCustomBtn, heap>>
         ELSE \E ptr \in {0} \cup (HeapSlots \ heap) :
                IF ptr = 0
                  THEN /\ runCalls' = Append(runCalls,
                                        RunCall("done", 0, 0, "error"))
                       /\ Finally
                       /\ UNCHANGED heap
                  ELSE /\ runCalls' = Append(runCalls,
                                        RunCall("ccall", ptr, 0, "none"))
                       /\ heap' = heap \cup {ptr}
                       /\ isRunning' = TRUE
                       /\ runSampleBtn' = Button(TRUE)
                       /\ runCustomBtn' = Button(TRUE)

\* createMrubycModule() resolves; _mrbc_wasm_init, the board loader and
\* the selector follow, up to the await of switchBoard; an exception in
\* between goes to the catch
CreateModuleResolves ==
    /\ initPc = "createModule"
    /\ mrubycModule' = 1
    /\ \E thrown \in BOOLEAN :
         IF thrown
           THEN initPc' = "failed" /\ UNCHANGED boardLoader
           ELSE initPc' = "switchBoard" /\ boardLoader' = 1
    /\ UNCHANGED <<isRunning, customBytecode, runSampleBtn, runCustomBtn,
                   runCalls, heap, readers>>

\* createMrubycModule() rejects: the catch of initModule
CreateModuleRejects ==
    /\ initPc = "createModule"
    /\ initPc' = "failed"
    /\ UNCHANGED <<mrubycModule, boardLoader, isRunning, customBytecode,
                   runSampleBtn, runCustomBtn, runCalls, heap, readers>>

\* the awaited switchBoard has returned: initModule enables runSampleBtn
SwitchBoardReturned ==
    /\ initPc = "switchBoard"
    /\ initPc' = "done"
    /\ runSampleBtn' = Button(FALSE)
    /\ UNCHANGED <<mrubycModule, boardLoader, isRunning, customBytecode,
                   runCustomBtn, runCalls, heap, readers>>

\* click on runSampleBtn
RunSampleClick ==
    /\ ~runSampleBtn.disabled
    /\ runBytecode
    /\ UNCHANGED <<mrubycModule, boardLoader, customBytecode, initPc,
                   readers>>

\* click on runCustomBtn
RunCustomClick ==
    /\ ~runCustomBtn.disabled
    /\ IF customBytecode # 0
         THEN runBytecode
         ELSE UNCHANGED <<isRunning, runSampleBtn, runCustomBtn, runCalls,
                          heap>>
    /\ UNCHANGED <<mrubycModule, boardLoader, customBytecode, initPc,
                   readers>>

\* what follows the await of ccall in call i, whether it resolved or
\* rejected: the finally block
AfterCcall(i, outcome) ==
    /\ runCalls[i].pc = "ccall"
    /\ IF runCalls[i].bytecodePtr # 0
         THEN /\ heap' = heap \ {runCalls[i].bytecodePtr}
              /\ runCalls' = [runCalls EXCEPT
                                ![i].pc = "done",
                                ![i].frees = @ + 1,
                                ![i].outcome = outcome]
         ELSE /\ UNCHANGED heap
              /\ runCalls' = [runCalls EXCEPT ![i].pc = "done",
                                              ![i].outcome = outcome]
    /\ Finally
    /\ UNCHANGED <<mrubycModule, boardLoader, customBytecode, initPc,
                   readers>>

\* mrbc_wasm_run returns its result
CcallResolves == \E i \in DOMAIN runCalls : AfterCcall(i, "success")

\* mrbc_wasm_run throws
CcallRejects == \E i \in DOMAIN runCalls : AfterCcall(i, "error")

\* change of the file input: a file over MAX_FILE_SIZE is refused, any
\* other file is handed to a FileReader
BytecodeFileChange ==
    /\ fileChanges < MaxFiles
    /\ fileChanges' = fileChanges + 1
    /\ \E tooLarge \in BOOLEAN :
         IF tooLarge
           THEN /\ customBytecode' = 0
                /\ runCustomBtn' = Button(TRUE)
                /\ UNCHANGED readers
           ELSE /\ readers' = readers + 1
                /\ UNCHANGED <<customBytecode, runCustomBtn>>
    /\ UNCHANGED <<mrubycModule, boardLoader, isRunning, runSampleBtn,
                   initPc, runCalls, heap>>

\* reader.onload
ReaderOnload ==
    /\ readers > 0
    /\ readers' = readers - 1
    /\ customBytecode' = 1
    /\ runCustomBtn' = Button(mrubycModule = 0 \/ isRunning)
    /\ UNCHANGED <<mrubycModule, boardLoader, isRunning, runSampleBtn,
                   initPc, runCalls, heap, fileChanges>>

\* reader.onerror
ReaderOnerror ==
    /\ readers > 0
    /\ readers' = readers - 1
    /\ customBytecode' = 0
    /\ runCustomBtn' = Button(TRUE)
    /\ UNCHANGED <<mrubycModule, boardLoader, isRunning, runSampleBtn,
                   initPc, runCalls, heap, fileChanges>>

otherThanApp == <<bleVars, crcCall, pixelsVars, boardVars>>

NextApp ==
    \/ CreateModuleResolves /\ UNCHANGED <<fileChanges, otherThanApp>>
    \/ CreateModuleRejects /\ UNCHANGED <<fileChanges, otherThanApp>>
    \/ SwitchBoardReturned /\ UNCHANGED <<fileChanges, otherThanApp>>
    \/ RunSampleClick /\ UNCHANGED <<fileChanges, otherThanApp>>
    \/ RunCustomClick /\ UNCHANGED <<fileChanges, otherThanApp>>
    \/ CcallResolves /\ UNCHANGED <<fileChanges, otherThanApp>>
    \/ CcallRejects /\ UNCHANGED <<fileChanges, otherThanApp>>
    \/ BytecodeFileChange /\ UNCHANGED otherThanApp
    \/ ReaderOnload /\ UNCHANGED otherThanApp
    \/ ReaderOnerror /\ UNCHANGED otherThanApp

SpecApp == Init /\ [][NextApp]_vars

\* --------------------------------------------------- the board loader
\* BoardLoader: the registry, loadScript, loadBoard, switchBoard. A board
\* configuration is told by its id field; the board-config.js under a
\* board's path sets window.BOARD_CONFIG to that board's configuration.
\* A continuation of an await on a promise that is already resolved runs
\* before any other event, so a call advances in one step up to the
\* first script it has to wait for.
XiaoBoard == [id |-> "xiao-nrf54l15", path |-> "boards/xiao-nrf54l15"]

OtherBoard == [id |-> "other", path |-> "boards/other"]

\* the arguments of registerBoard and of switchBoard
BoardInfos == {XiaoBoard, OtherBoard}

BoardIds == {XiaoBoard.id, OtherBoard.id, "unknown"}

ScriptFiles == <<"board-config.js", "ui-components.js", "api-definitions.js">>

\* `${boardPath}/${file}`
ScriptSrc(path, k) == <<path, ScriptFiles[k]>>

\* the id of the BOARD_CONFIG that the board-config.js under path exports
ConfigOf(path) == (CHOOSE b \in BoardInfos : b.path = path).id

\* the first of a set of indexes
First(indexes) == CHOOSE i \in indexes : \A j \in indexes : i <= j

\* this.availableBoards.find(b => b.id === boardId): its index, 0 if none
Find(boards, boardId) ==
    LET found == {i \in DOMAIN boards : boards[i].id = boardId}
    IN  IF found = {} THEN 0 ELSE First(found)

\* loadBoard from its k-th script on: the first script that is not in the
\* document and has to be loaded; one more than the last if there is none
FirstToLoad(path, k, scripts) ==
    LET missing == {j \in k .. Len(ScriptFiles) :
                        ScriptSrc(path, j) \notin scripts}
    IN  IF missing = {} THEN Len(ScriptFiles) + 1 ELSE First(missing)

\* one call of switchBoard
SwitchCall(boardId, path, awaits, result) ==
    [boardId |-> boardId, path |-> path, awaits |-> awaits,
     result |-> result]

\* the value switchBoard returns once loadBoard is through: createBoardUI
\* runs on the stored configuration and throws into the catch when that
\* is undefined
SwitchResult(config, createBoardUI) ==
    IF createBoardUI /\ config = Null THEN "false" ELSE "true"

\* switchBoard(boardId) of call i from its k-th script on, with the
\* window and the board loader as w: either the next script is appended
\* to the document and awaited, or the call stores window.BOARD_CONFIG
\* and boardId and returns
LoadBoardFrom(calls, i, k, w) ==
    LET path == calls[i].path
        n == FirstToLoad(path, k, documentScripts)
    IN  IF n <= Len(ScriptFiles)
          THEN /\ documentScripts' =
                      documentScripts \cup {ScriptSrc(path, n)}
               /\ switchCalls' = [calls EXCEPT ![i].awaits = n]
               /\ currentBoard' = w.currentBoard
               /\ currentBoardId' = w.currentBoardId
          ELSE /\ UNCHANGED documentScripts
               /\ currentBoard' = w.BOARD_CONFIG
               /\ currentBoardId' = calls[i].boardId
               /\ switchCalls' =
                      [calls EXCEPT
                         ![i].awaits = n,
                         ![i].result = SwitchResult(w.BOARD_CONFIG,
                                                    w.createBoardUI)]

\* registerBoard(boardInfo)
RegisterBoard(boardInfo) ==
    /\ registerCount < MaxRegisters
    /\ registerCount' = registerCount + 1
    /\ LET existing == Find(availableBoards, boardInfo.id)
       IN  IF existing # 0
             THEN availableBoards' =
                      [availableBoards EXCEPT ![existing] = boardInfo]
             ELSE availableBoards' = Append(availableBoards, boardInfo)
    /\ UNCHANGED <<currentBoard, currentBoardId, loadedScripts,
                   documentScripts, window, switchCalls>>

\* switchBoard(boardId, uiContainer) up to its first await that has to
\* wait
SwitchBoard(boardId) ==
    /\ Len(switchCalls) < MaxSwitches
    /\ LET found == Find(availableBoards, boardId)
           i == Len(switchCalls) + 1
       IN  IF found = 0
             THEN /\ switchCalls' =
                        Append(switchCalls,
                               SwitchCall(boardId, "", 0, "false"))
                  /\ UNCHANGED <<currentBoard, currentBoardId,
                                 documentScripts>>
             ELSE LoadBoardFrom(
                      Append(switchCalls,
                             SwitchCall(boardId, availableBoards[found].path,
                                        1, "pending")),
                      i, 1,
                      [currentBoard |->
                           IF currentBoard # Null THEN Null ELSE currentBoard,
                       currentBoardId |->
                           IF currentBoard # Null THEN Null
                                                ELSE currentBoardId,
                       BOARD_CONFIG |-> window.BOARD_CONFIG,
                       createBoardUI |-> window.createBoardUI])
    /\ UNCHANGED <<availableBoards, loadedScripts, window, registerCount>>

\* script.onload of the script call i waits for: the script has run,
\* loadBoard goes on
ScriptOnload(i) ==
    /\ switchCalls[i].result = "pending"
    /\ LET path == switchCalls[i].path
           k == switchCalls[i].awaits
           ran == [BOARD_CONFIG |->
                       IF k = 1 THEN ConfigOf(path)
                                ELSE window.BOARD_CONFIG,
                   createBoardUI |->
                       (k = 2) \/ window.createBoardUI]
       IN  /\ window' = ran
           /\ loadedScripts' = Append(loadedScripts, ScriptSrc(path, k))
           /\ LoadBoardFrom(switchCalls, i, k + 1,
                            [currentBoard |-> currentBoard,
                             currentBoardId |-> currentBoardId,
                             BOARD_CONFIG |-> ran.BOARD_CONFIG,
                             createBoardUI |-> ran.createBoardUI])
    /\ UNCHANGED <<availableBoards, registerCount>>

\* script.onerror of the script call i waits for: loadBoard rejects and
\* switchBoard returns false from its catch
ScriptOnerror(i) ==
    /\ switchCalls[i].result = "pending"
    /\ switchCalls' = [switchCalls EXCEPT ![i].result = "false"]
    /\ UNCHANGED <<availableBoards, currentBoard, currentBoardId,
                   loadedScripts, documentScripts, window, registerCount>>

otherThanBoard == <<bleVars, crcCall, pixelsVars, appVars>>

NextBoard ==
    \/ \E b \in BoardInfos : RegisterBoard(b) /\ UNCHANGED otherThanBoard
    \/ \E id \in BoardIds : SwitchBoard(id) /\ UNCHANGED otherThanBoard
    \/ \E i \in DOMAIN switchCalls :
          ScriptOnload(i) /\ UNCHANGED otherThanBoard
    \/ \E i \in DOMAIN switchCalls :
          ScriptOnerror(i) /\ UNCHANGED otherThanBoard

SpecBoard == Init /\ [][NextBoard]_vars

\* ------------------------------------------------- reading the channel
\* What a receiver reads from a frame: the little-endian 16-bit field at
\* byte position p (1-based), and the bytes behind the Data header.
FrameU16(bytes, p) == bytes[p] + U8 * bytes[p + 1]
FrameOffset(bytes) == FrameU16(bytes, 3)
FrameLength(bytes) == FrameU16(bytes, 5)
FramePayload(bytes) == SubSeq(bytes, DATA_HEADER_SIZE + 1, Len(bytes))

\* the frames of sendFirmware call sid with tag `tag`, in the order written
FramesOf(sid, tag) ==
    SelectSeq(log, LAMBDA e : IsWrite(e) /\ e.sid = sid /\ Tag(e) = tag)
DataOf(sid) == FramesOf(sid, TAG_D)
ProgramOf(sid) == FramesOf(sid, TAG_P)
ReloadOf(sid) == FramesOf(sid, TAG_L)

\* the positions in the log of the frames of call sid
IndexesOf(sid) == {i \in 1..Len(log) : IsWrite(log[i]) /\ log[i].sid = sid}

\* every Data write of call sid succeeded: the call went on to Program
AllDataSent(sid) == Len(ProgramOf(sid)) > 0

RECURSIVE SumPayload(_)
SumPayload(frames) ==
    IF frames = <<>> THEN 0
    ELSE Len(FramePayload(Head(frames).bytes)) + SumPayload(Tail(frames))

Sessions == 1..Len(sess)

\* ------------------------------------------------------------------ C1
\* C1: for a buffer of at most 65535 bytes and a negotiated MTU of at least
\* 7, the offsets of the Data frames of one sendFirmware call start at 0,
\* each is the previous offset plus the previous chunk length (contiguous,
\* no gap, no overlap), every chunk holds at least one byte (strictly
\* increasing), and once all Data writes succeeded the payload lengths sum
\* to the length of the buffer.
C1_OffsetsContiguous ==
    \A sid \in Sessions :
        LET f == sess[sid]
            d == DataOf(sid)
        IN  (f.DATA_PAYLOAD_SIZE >= 1 /\ f.contentLength < U16) =>
              /\ \A k \in 1..Len(d) :
                   /\ FrameLength(d[k].bytes) = Len(FramePayload(d[k].bytes))
                   /\ FrameLength(d[k].bytes) >= 1
                   /\ FrameOffset(d[k].bytes) =
                        IF k = 1 THEN 0
                        ELSE FrameOffset(d[k - 1].bytes)
                             + FrameLength(d[k - 1].bytes)
              /\ AllDataSent(sid) => SumPayload(d) = Len(f.mrbContent)

\* a call that sent a buffer in three chunks and went on to Program
C1_Witness ==
    \E sid \in Sessions :
        /\ sess[sid].DATA_PAYLOAD_SIZE = 1
        /\ Len(DataOf(sid)) = 3
        /\ AllDataSent(sid)

\* ------------------------------------------------------------------ C2
\* the bytes of the Data frames of `frames` whose offset is below `offset`
BytesBelow(frames, offset) ==
    SumPayload(SelectSeq(frames,
                         LAMBDA e : FrameOffset(e.bytes) < offset))

\* C2: round trip.  Once all Data writes of a sendFirmware call succeeded,
\* putting the payloads of its Data frames together in the order of their
\* offsets reproduces the buffer: each frame's offset is the number of bytes
\* of the frames with smaller offsets, each payload is the slice of the
\* buffer at the frame's offset, and the payloads have the buffer's length.
C2_RoundTrip ==
    \A sid \in Sessions :
        LET b == sess[sid].mrbContent
            d == DataOf(sid)
        IN  AllDataSent(sid) =>
              /\ SumPayload(d) = Len(b)
              /\ \A k \in 1..Len(d) :
                   LET offset == FrameOffset(d[k].bytes)
                       payload == FramePayload(d[k].bytes)
                   IN  /\ offset = BytesBelow(d, offset)
                       /\ payload = SubSeq(b, offset + 1,
                                           offset + Len(payload))

\* ------------------------------------------------------------------ C3
\* C3: every Program frame carries, as totalLength, the length of the buffer
\* passed to sendFirmware and, as crc16, crc16_reflect(0xD175, 0xFFFF, .) of
\* that buffer, whatever the negotiated MTU and the chunk boundaries.
C3_ProgramFields ==
    \A sid \in Sessions :
        \A k \in 1..Len(ProgramOf(sid)) :
            LET bytes == ProgramOf(sid)[k].bytes
            IN  /\ FrameU16(bytes, 3) = Len(sess[sid].mrbContent)
                /\ FrameU16(bytes, 5) =
                     crc16_reflect(CRC_POLY, CRC_SEED, sess[sid].mrbContent)

\* ------------------------------------------------------------------ C5
\* a sendFirmware call that is suspended at the write of a Data or Program
\* frame
InFlight(sid) == sess[sid].pc \in {"data", "program"}

\* C5: a deployment requested while another is in flight is rejected: at
\* most one sendFirmware call is in flight, and the Data and Program frames
\* of two calls are never interleaved in the order written.
C5_SessionBusy ==
    /\ Cardinality({sid \in Sessions : InFlight(sid)}) <= 1
    /\ \A i, j, k \in 1..Len(log) :
         (i < j /\ j < k /\ IsWrite(log[i]) /\ IsWrite(log[j])
            /\ IsWrite(log[k])
            /\ {Tag(log[i]), Tag(log[j]), Tag(log[k])} \subseteq {TAG_D, TAG_P}
            /\ log[i].sid = log[k].sid)
         => log[j].sid = log[i].sid

\* ------------------------------------------------------------------ C6
\* C6: negotiatedMTU is never below 7 (the 6-byte header and one byte of
\* payload), whatever the transport grants or the device reports.
C6_MtuAtLeast7 == negotiatedMTU >= DATA_HEADER_SIZE + 1

\* ----------------------------------------------------------------- C10
\* C10: a firmware buffer longer than 65535 bytes is rejected before any
\* frame is written, and no 16-bit field holds a truncated value: the k-th
\* Data frame carries the offset (k - 1) * payload size and the Program
\* frame carries the length of the buffer.
C10_RejectsOversized ==
    \A sid \in Sessions :
        LET f == sess[sid]
        IN  /\ f.contentLength >= U16 => IndexesOf(sid) = {}
            /\ \A k \in 1..Len(DataOf(sid)) :
                 f.DATA_PAYLOAD_SIZE >= 1 =>
                   FrameOffset(DataOf(sid)[k].bytes)
                     = (k - 1) * f.DATA_PAYLOAD_SIZE
            /\ \A k \in 1..Len(ProgramOf(sid)) :
                 FrameU16(ProgramOf(sid)[k].bytes, 3) = f.contentLength

\* ------------------------------------------------------------------ C4
\* the position in the buffer of the chunk in the last Data frame of call sid
FailedOffset(sid) == (Len(DataOf(sid)) - 1) * sess[sid].DATA_PAYLOAD_SIZE

\* C4: when the write of a Data frame fails, the call ends there: it has
\* returned, no frame of the call (no retry, no later Data frame, no Program
\* frame, no Reload frame) is written after the failed one, and the console
\* holds the Data error line with the position in the buffer of the chunk of
\* the failed frame, and no Data error line of the call with another offset.
C4_AbortOnDataFailure ==
    \A i \in 1..Len(log) :
        (IsWrite(log[i]) /\ log[i].sid # 0 /\ Tag(log[i]) = TAG_D
           /\ log[i].result = "failed")
        => /\ sess[log[i].sid].pc = "returned"
           /\ \A j \in IndexesOf(log[i].sid) : j <= i
           /\ ProgramOf(log[i].sid) = <<>>
           /\ ReloadOf(log[i].sid) = <<>>
           /\ \E n \in 1..Len(console) :
                console[n] = Line("Send [D]ata Error:", log[i].sid,
                                  <<FailedOffset(log[i].sid)>>)
           /\ \A n \in 1..Len(console) :
                (console[n].msg = "Send [D]ata Error:"
                   /\ console[n].sid = log[i].sid)
                => console[n].args = <<FailedOffset(log[i].sid)>>

\* a Data write failed at an offset beyond the first chunk
C4_Witness ==
    \E i \in 1..Len(log) :
        /\ IsWrite(log[i]) /\ log[i].sid # 0 /\ Tag(log[i]) = TAG_D
        /\ log[i].result = "failed"
        /\ FrameOffset(log[i].bytes) > 0
        /\ sess[log[i].sid].DATA_PAYLOAD_SIZE >= 1

\* ------------------------------------------------------------------ C7
\* C7: when requestMTU throws, the step that runs the catch sets
\* negotiatedMTU to 20, starts no read of the device-reported MTU and ends
\* no sendFirmware call; a connection that was asked for an MTU is never
\* read for its MTU; and a sendFirmware call that starts while negotiatedMTU
\* is 20 cuts its Data frames with a payload size of 14 bytes.
C7_RequestFailureFallsBack ==
    [][ /\ \A i \in 1..Len(log) :
             (log[i].op = "requestMTU" /\ log[i].result = "pending"
                /\ log'[i].result = "failed")
             => /\ negotiatedMTU' = 20
                /\ Len(log') = Len(log)
                /\ sess' = sess
        /\ \A i \in 1..Len(log'), j \in 1..Len(log') :
             (log'[i].op = "requestMTU" /\ log'[j].op = "readValue")
             => log'[i].ch # log'[j].ch
        /\ (Len(sess') = Len(sess) + 1 /\ negotiatedMTU = 20)
             => /\ sess'[Len(sess')].DATA_PAYLOAD_SIZE = 14
                /\ sess'[Len(sess')].contentLength > 0
                     => Len(FramePayload(log'[Len(log')].bytes))
                          = Min(14, sess'[Len(sess')].contentLength)
      ]_vars

\* after a failed requestMTU left negotiatedMTU at 20 where it had been 8, a
\* sendFirmware call sent its buffer in one Data frame
C7_Witness ==
    \E i \in 1..Len(log), j \in 1..Len(log), sid \in Sessions :
        /\ log[i].op = "requestMTU" /\ log[i].result = "ok"
        /\ log[j].op = "requestMTU" /\ log[j].result = "failed"
        /\ i < j
        /\ negotiatedMTU = 20
        /\ sess[sid].DATA_PAYLOAD_SIZE = 14
        /\ Len(DataOf(sid)) = 1
        /\ \A k \in IndexesOf(sid) : k > j

\* ------------------------------------------------------------------ C8
\* C8: for an empty buffer sendFirmware writes no Data frame and exactly one
\* Program frame, whose totalLength field is 0.
C8_EmptyBuffer ==
    \A sid \in Sessions :
        sess[sid].mrbContent = <<>>
        => /\ DataOf(sid) = <<>>
           /\ Len(ProgramOf(sid)) = 1
           /\ FrameU16(ProgramOf(sid)[1].bytes, 3) = 0

\* a call with an empty buffer has returned
C8_Witness ==
    \E sid \in Sessions :
        /\ sess[sid].mrbContent = <<>>
        /\ sess[sid].pc = "returned"
        /\ ProgramOf(sid)[1].result = "ok"

\* ------------------------------------------------------------------ C9
Ceil(a, b) == (a + b - 1) \div b

\* the position in the log of the k-th frame with tag `tag` of call sid
IndexOf(sid, tag, k) ==
    CHOOSE i \in IndexesOf(sid) :
        /\ Tag(log[i]) = tag
        /\ Cardinality({j \in IndexesOf(sid) :
                          j <= i /\ Tag(log[j]) = tag}) = k

\* C9: with a payload size of at least 1, the k-th Data frame of a call
\* carries min(payloadSize, len(B) - (k-1)*payloadSize) bytes and says so in
\* its length field; once all Data writes succeeded there are exactly
\* ceil(len(B)/payloadSize) Data frames, all but the last of payloadSize
\* bytes and the last of len(B) - (n-1)*payloadSize bytes, followed by
\* exactly one Program frame.
C9_FrameCount ==
    \A sid \in Sessions :
        LET f == sess[sid]
            p == f.DATA_PAYLOAD_SIZE
            len == Len(f.mrbContent)
            d == DataOf(sid)
            n == Ceil(len, p)
        IN  p >= 1 =>
              /\ Len(d) <= n
              /\ Len(ProgramOf(sid)) <= 1
              /\ \A k \in 1..Len(d) :
                   /\ Len(d[k].bytes) = DATA_HEADER_SIZE
                        + (IF k < n THEN p ELSE len - (n - 1) * p)
                   /\ FrameLength(d[k].bytes)
                        = (IF k < n THEN p ELSE len - (n - 1) * p)
              /\ AllDataSent(sid) =>
                   /\ Len(d) = n
                   /\ \A k \in 1..n :
                        /\ d[k].result = "ok"
                        /\ IndexOf(sid, TAG_D, k) < IndexOf(sid, TAG_P, 1)

\* a buffer of 3 bytes went out in a chunk of 2 bytes and a chunk of 1 byte,
\* and the Program frame followed
C9_Witness ==
    \E sid \in Sessions :
        /\ sess[sid].DATA_PAYLOAD_SIZE = 2
        /\ Len(sess[sid].mrbContent) = 3
        /\ Len(DataOf(sid)) = 2
        /\ Len(ProgramOf(sid)) = 1

\* ----------------------------------------------------------------- C11
\* C11: a sendFirmware call that starts with negotiatedMTU - 6 < 1 fails
\* (its promise rejects) and writes no Data frame and no Program frame.
C11_PayloadTooSmall ==
    \A sid \in Sessions :
        sess[sid].DATA_PAYLOAD_SIZE < 1
        => /\ sess[sid].outcome = "rejected"
           /\ DataOf(sid) = <<>>
           /\ ProgramOf(sid) = <<>>

\* ----------------------------------------------------------------- C12
\* the positions of the entries a step adds to the log
Added == (Len(log) + 1)..Len(log')

\* C12: at the moment a Data frame is written, its payload is no longer than
\* negotiatedMTU - 6 for the value negotiatedMTU has at that moment, also
\* when connections and negotiations happen while a call is running.  (Stated
\* for the calls and moments at which the negotiated values are at least 7,
\* the least value the negotiation is meant to give.)
C12_PayloadWithinMtu ==
    [][ \A i \in Added :
          (IsWrite(log'[i]) /\ log'[i].sid # 0 /\ Tag(log'[i]) = TAG_D
             /\ sess'[log'[i].sid].DATA_PAYLOAD_SIZE >= 1
             /\ negotiatedMTU' >= DATA_HEADER_SIZE + 1)
          => Len(FramePayload(log'[i].bytes))
               <= negotiatedMTU' - DATA_HEADER_SIZE
      ]_vars

\* ----------------------------------------------------------------- C13
\* the low and the high byte of a 16-bit field that holds v
LowByte(v) == v % U8
HighByte(v) == (v \div U8) % U8

\* C13: every frame written has the layout of its command.  Byte 0 is the
\* version 0x01; Reset is exactly [0x01,'R'] and Reload exactly [0x01,'L'];
\* a Data frame is 6 + n bytes with tag 'D', the offset of its chunk in
\* little-endian order and the little-endian length n, the number of payload
\* bytes behind the header; a Program frame is exactly 8 bytes with tag 'P',
\* little-endian totalLength, little-endian crc16, slot 2 and reserved 0.
C13_FrameLayout ==
    /\ \A i \in 1..Len(log) :
         IsWrite(log[i]) =>
           LET b == log[i].bytes
           IN  /\ \A n \in 1..Len(b) : b[n] \in 0..(U8 - 1)
               /\ Len(b) >= 2
               /\ b[1] = 1
               /\ b[2] \in {TAG_R, TAG_L, TAG_D, TAG_P}
               /\ b[2] = TAG_R => b = <<1, 82>>
               /\ b[2] = TAG_L => b = <<1, 76>>
               /\ b[2] = TAG_D => /\ b[2] = 68
                                  /\ Len(b) >= 6
                                  /\ Len(b) = 6 + b[5] + U8 * b[6]
               /\ b[2] = TAG_P => /\ b[2] = 80
                                  /\ Len(b) = 8
                                  /\ b[7] = 2
                                  /\ b[8] = 0
    /\ \A sid \in Sessions :
         LET f == sess[sid]
         IN  /\ \A k \in 1..Len(DataOf(sid)) :
                  LET b == DataOf(sid)[k].bytes
                      offset == (k - 1) * f.DATA_PAYLOAD_SIZE
                  IN  /\ b[3] = LowByte(offset)
                      /\ b[4] = HighByte(offset)
             /\ \A k \in 1..Len(ProgramOf(sid)) :
                  LET b == ProgramOf(sid)[k].bytes
                  IN  /\ b[3] = LowByte(Len(f.mrbContent))
                      /\ b[4] = HighByte(Len(f.mrbContent))
                      /\ b[5] = LowByte(f.crc16)
                      /\ b[6] = HighByte(f.crc16)

\* all four commands have been written, among them a Data frame at an offset
\* above 0 and a Program frame whose crc16 has two different bytes
C13_Witness ==
    /\ \E i \in 1..Len(log) : IsWrite(log[i]) /\ Tag(log[i]) = TAG_R
    /\ \E sid \in Sessions :
         /\ Len(DataOf(sid)) >= 2
         /\ FrameOffset(DataOf(sid)[2].bytes) > 0
         /\ Len(ProgramOf(sid)) = 1
         /\ ProgramOf(sid)[1].bytes[5] # ProgramOf(sid)[1].bytes[6]
         /\ Len(ReloadOf(sid)) = 1

\* ----------------------------------------------------------------- C14
\* The reference reflected CRC16.  The accumulator is a word of 16 bits,
\* written as the set of the places of its bits that are set, place 0 the
\* low bit; between two steps it is held as the number it spells.
Places == 0..15
RECURSIVE Weight(_)
Weight(k) == IF k = 0 THEN 1 ELSE 2 * Weight(k - 1)
RefBits(v) == {k \in Places : (v \div Weight(k)) % 2 = 1}
RECURSIVE RefValue(_)
RefValue(bits) ==
    IF bits = {} THEN 0
    ELSE LET k == CHOOSE x \in bits : TRUE
         IN  Weight(k) + RefValue(bits \ {k})
RefXor(a, b) == (a \ b) \cup (b \ a)
RefShiftRight(a) == {k - 1 : k \in a \ {0}}
\* if the low bit is set, shift right and XOR with poly; else shift right
RefStep(v, poly) ==
    LET a == RefBits(v)
    IN  RefValue(IF 0 \in a THEN RefXor(RefShiftRight(a), RefBits(poly))
                 ELSE RefShiftRight(a))
\* XOR the byte into the low byte of the accumulator, then 8 steps
RefByte(v, poly, byte) ==
    LET steps[w \in Nat, n \in Nat] ==
            IF n = 0 THEN w ELSE steps[RefStep(w, poly), n - 1]
    IN  steps[RefValue(RefXor(RefBits(v), RefBits(byte))), 8]
\* byte after byte, from the seed
RefCrc16(poly, seed, src) ==
    LET fold[w \in Nat, i \in Nat] ==
            IF i > Len(src) THEN w
            ELSE fold[RefByte(w, poly, src[i]), i + 1]
    IN  fold[seed, 1]

\* C14: for polynomials and seeds of 16 bits and byte buffers, the value
\* crc16_reflect returns equals the reference reflected CRC16, lies in
\* 0..65535, is the seed for the empty buffer (0xFFFF for seed 0xFFFF), is
\* the same for the same arguments, and is the check value 0x6F91 of the
\* reflected CRC16 with polynomial 0x8408 and seed 0xFFFF for "123456789".
C14_CrcMatchesReference ==
    crcCall.pc = "returned" =>
        /\ crcCall.crc = RefCrc16(crcCall.poly, crcCall.seed, crcCall.src)
        /\ crcCall.crc \in 0..(U16 - 1)
        /\ crcCall.src = <<>> => crcCall.crc = crcCall.seed
        /\ crcCall.crc = crc16_reflect(crcCall.poly, crcCall.seed,
                                       crcCall.src)
        /\ (crcCall.poly = 33800 /\ crcCall.seed = 65535
              /\ crcCall.src = Digits) => crcCall.crc = 28561

\* the call with the firmware polynomial 0xD175 and seed 0xFFFF on a buffer
\* of two different bytes has returned
C14_Witness ==
    /\ crcCall.pc = "returned"
    /\ crcCall.poly = CRC_POLY
    /\ crcCall.seed = CRC_SEED
    /\ crcCall.src = <<49, 255>>

\* ----------------------------------------------------------------- C15
\* a Data or Program write of call sid failed
WriteFailed(sid) ==
    \E i \in IndexesOf(sid) :
        Tag(log[i]) \in {TAG_D, TAG_P} /\ log[i].result = "failed"

\* the caller of call sid was told that it completed
ReportedComplete(sid) ==
    \E n \in 1..Len(console) :
        console[n] = Line("Sending bytecode: Complete!", sid, <<>>)

\* C15: a sendFirmware call in which a Data or Program write failed ends as
\* failed for its caller (its promise rejects and the caller's error line is
\* printed), and is never reported to the caller as complete.
C15_FailureReported ==
    \A sid \in Sessions :
        WriteFailed(sid)
        => /\ sess[sid].outcome = "rejected"
           /\ \E n \in 1..Len(console) :
                console[n].msg = "Sending bytecode Error:"
                  /\ console[n].sid = sid
           /\ ~ReportedComplete(sid)

\* ----------------------------------------------------------------- C16
\* C16: the frames of one sendFirmware call are written in the order
\* Data*, Program, Reload: at most one Program and one Reload frame; the
\* Program frame comes after every Data frame of the call and all of those
\* writes succeeded; the Reload frame comes after the Program frame, whose
\* write succeeded; after a failed Program write there is no Reload frame.
C16_FrameOrder ==
    \A sid \in Sessions :
        /\ Len(ProgramOf(sid)) <= 1
        /\ Len(ReloadOf(sid)) <= 1
        /\ \A i \in IndexesOf(sid), j \in IndexesOf(sid) :
             /\ (Tag(log[i]) = TAG_P /\ Tag(log[j]) = TAG_D)
                  => (j < i /\ log[j].result = "ok")
             /\ (Tag(log[i]) = TAG_L /\ Tag(log[j]) = TAG_D) => j < i
             /\ (Tag(log[i]) = TAG_L /\ Tag(log[j]) = TAG_P)
                  => (j < i /\ log[j].result = "ok")
        /\ ReloadOf(sid) # <<>> => Len(ProgramOf(sid)) = 1
        /\ \A k \in 1..Len(ProgramOf(sid)) :
             ProgramOf(sid)[k].result = "failed" => ReloadOf(sid) = <<>>

\* one call has written two Data frames, a Program frame and a Reload frame,
\* and the Program write of another call has failed
C16_Witness ==
    /\ \E sid \in Sessions :
         /\ Len(DataOf(sid)) = 2
         /\ Len(ProgramOf(sid)) = 1
         /\ Len(ReloadOf(sid)) = 1
    /\ \E sid \in Sessions :
         /\ Len(ProgramOf(sid)) = 1
         /\ ProgramOf(sid)[1].result = "failed"

\* ----------------------------------------------------------------- C17
\* C17: a sendFirmware call whose Program write succeeded is reported to
\* its caller as complete only after its Reload write has resolved or
\* failed, never while the Reload write is pending or not yet made.
C17_CompleteAfterReload ==
    \A sid \in Sessions :
        (ReportedComplete(sid)
           /\ \E k \in 1..Len(ProgramOf(sid)) : ProgramOf(sid)[k].result = "ok")
        => /\ Len(ReloadOf(sid)) = 1
           /\ ReloadOf(sid)[1].result # "pending"

\* ----------------------------------------------------------------- C18
\* the positions in the log of the negotiation started for connection ch
NegotiationOf(ch) ==
    {j \in 1..Len(log) :
       log[j].op \in {"requestMTU", "readValue"} /\ log[j].ch = ch}

\* C18: no Data frame is written before the MTU negotiation of the
\* connection it is written to has finished: wherever a Data frame is in
\* the log, the negotiation of its connection was started before it and has
\* settled.
C18_NegotiationFirst ==
    \A i \in 1..Len(log) :
        (IsWrite(log[i]) /\ log[i].sid # 0 /\ Tag(log[i]) = TAG_D)
        => /\ NegotiationOf(log[i].ch) # {}
           /\ \A j \in NegotiationOf(log[i].ch) :
                j < i /\ log[j].result # "pending"

\* ----------------------------------------------------------------- C19
\* C19: when the read of the device-reported MTU fails (on a connection
\* without requestMTU), negotiatedMTU is the default 20 once negotiateMTU
\* has run its catch, whatever earlier connections negotiated.
C19_ReadFailureGivesDefault ==
    [][ \A i \in 1..Len(log) :
          (log[i].op = "readValue" /\ log[i].result = "pending"
             /\ log'[i].result = "failed")
          => negotiatedMTU' = 20
      ]_vars

\* ----------------------------------------------------------------- C20
\* C20: the two strategies exclude each other.  One negotiation is started
\* per connection: requestMTU(512) if and only if the connection has
\* requestMTU, the read of the MTU characteristic if and only if it has not
\* (so never after a failed requestMTU); and when the operation resolves,
\* negotiatedMTU becomes the granted value in the first case and the value
\* the device reported minus 3 in the second.
C20_StrategiesExclusive ==
    [][ /\ \A ch \in 1..Len(conns') :
             /\ Cardinality({j \in 1..Len(log') :
                   log'[j].op \in {"requestMTU", "readValue"}
                     /\ log'[j].ch = ch}) = 1
             /\ \A j \in 1..Len(log') :
                  /\ (log'[j].op = "requestMTU" /\ log'[j].ch = ch)
                       => (conns'[ch].requestMTU /\ log'[j].bytes = <<512>>)
                  /\ (log'[j].op = "readValue" /\ log'[j].ch = ch)
                       => ~conns'[ch].requestMTU
        /\ \A i \in 1..Len(log) :
             (log[i].result = "pending" /\ log'[i].result = "ok")
             => /\ log[i].op = "requestMTU"
                     => negotiatedMTU' = log'[i].value[1]
                /\ log[i].op = "readValue"
                     => negotiatedMTU' = log'[i].value[1] - 3
      ]_vars

\* both strategies have run to a value: a connection with requestMTU was
\* granted 8, and a connection without it read 10 and holds 7
C20_Witness ==
    \E i \in 1..Len(log), j \in 1..Len(log) :
        /\ log[i].op = "requestMTU" /\ log[i].value = <<8>>
        /\ log[j].op = "readValue" /\ log[j].value = <<10>>
        /\ i < j
        /\ negotiatedMTU = 7

\* ----------------------------------------------------------------- C21
\* the value of negotiatedMTU that call sid printed when it started
StartMtu(sid) ==
    LET n == CHOOSE n \in 1..Len(console) :
                 console[n].msg = "Sending bytecode:" /\ console[n].sid = sid
    IN  console[n].args[4]

\* C21: the payload size of one sendFirmware call is fixed when the call
\* starts: it is the negotiatedMTU of that moment minus 6, and every Data
\* frame of the call starts at a multiple of it and carries that many bytes
\* (the last one the rest), also after negotiateMTU has changed
\* negotiatedMTU while the call was suspended at a write.
C21_PayloadFixedPerCall ==
    \A sid \in Sessions :
        LET p == StartMtu(sid) - 6
            len == Len(sess[sid].mrbContent)
        IN  /\ sess[sid].DATA_PAYLOAD_SIZE = p
            /\ \A k \in 1..Len(DataOf(sid)) :
                 /\ p >= 0
                 /\ FrameOffset(DataOf(sid)[k].bytes) = (k - 1) * p
                 /\ Len(FramePayload(DataOf(sid)[k].bytes))
                      = Min(p, len - (k - 1) * p)

\* a negotiation that started after the first Data frame of a call, that is
\* while the call was suspended at a write, has resolved and changed
\* negotiatedMTU, and the call has written a second Data frame after the
\* negotiation began and has gone on to its Program frame
C21_Witness ==
    \E sid \in Sessions, j \in 1..Len(log) :
        /\ log[j].op \in {"requestMTU", "readValue"}
        /\ log[j].result = "ok"
        /\ negotiatedMTU # StartMtu(sid)
        /\ Len(DataOf(sid)) = 2
        /\ IndexOf(sid, TAG_D, 1) < j
        /\ j < IndexOf(sid, TAG_D, 2)
        /\ Len(ProgramOf(sid)) = 1

\* ----------------------------------------------------------------- C22
\* C22: a failed Reload write is reported on the console and nothing else
\* follows from it: no frame of the call is written after the failed Reload
\* frame, and the call stays reported as complete, not as failed.
C22_ReloadFailureOnlyLogged ==
    \A sid \in Sessions :
        \A i \in IndexesOf(sid) :
            (Tag(log[i]) = TAG_L /\ log[i].result = "failed")
            => /\ \A j \in IndexesOf(sid) : j <= i
               /\ \E n \in 1..Len(console) :
                    console[n] = Line("Send re[L]oad Error:", sid, <<>>)
               /\ sess[sid].outcome = "resolved"
               /\ ReportedComplete(sid)
               /\ \A n \in 1..Len(console) :
                    console[n].sid = sid
                    => console[n].msg # "Sending bytecode Error:"

\* the Reload write of a call that sent a Data frame has failed
C22_Witness ==
    \E sid \in Sessions :
        /\ Len(DataOf(sid)) >= 1
        /\ Len(ReloadOf(sid)) = 1
        /\ ReloadOf(sid)[1].result = "failed"

\* ----------------------------------------------------------------- C23
\* the step is a click on soft-reset: it prints one of sendReset's lines
IsResetStep ==
    /\ Len(console') = Len(console) + 1
    /\ console'[Len(console')].msg \in {"Send [R]eset Complete",
                                        "Send [R]eset Error:"}

\* C23: sendReset runs in any state.  Its step leaves negotiatedMTU, the
\* characteristics, every sendFirmware call and every entry already in the
\* log as they are, and adds at most one entry: the Reset frame, written
\* with writeValue and not awaited, when there is a program characteristic,
\* and nothing when there is none.
C23_ResetIndependent ==
    [][ IsResetStep =>
          /\ negotiatedMTU' = negotiatedMTU
          /\ sess' = sess
          /\ programCharacteristic' = programCharacteristic
          /\ SubSeq(log', 1, Len(log)) = log
          /\ IF programCharacteristic = 0
             THEN log' = log
             ELSE /\ Len(log') = Len(log) + 1
                  /\ log'[Len(log')].bytes = <<1, 82>>
                  /\ log'[Len(log')].op = "writeValue"
                  /\ log'[Len(log')].result = "pending"
                  /\ log'[Len(log')].ch = programCharacteristic
      ]_vars

\* a Reset frame was written between the two Data frames of a call, which
\* went on to its Program and Reload frames
C23_Witness ==
    \E sid \in Sessions, i \in 1..Len(log) :
        /\ IsWrite(log[i]) /\ Tag(log[i]) = TAG_R
        /\ Len(DataOf(sid)) = 2
        /\ IndexOf(sid, TAG_D, 1) < i
        /\ i < IndexOf(sid, TAG_D, 2)
        /\ Len(ProgramOf(sid)) = 1
        /\ Len(ReloadOf(sid)) = 1

\* ----------------------------------------------------------------- C26
\* C26: all frames of one sendFirmware call, Data, Program and Reload, are
\* written to one characteristic, also when a new connection replaces
\* programCharacteristic while the call is suspended at a write.
C26_OneChannelPerCall ==
    \A sid \in Sessions :
        \A i \in IndexesOf(sid), j \in IndexesOf(sid) : log[i].ch = log[j].ch

\* ----------------------------------------------------------------- C27
\* C27: a sendFirmware call finishes after finitely many frames: it writes
\* at most len(B) Data frames and at most one Program frame, whatever value
\* negotiatedMTU holds after negotiation.
C27_FrameBudget ==
    \A sid \in Sessions :
        /\ Len(DataOf(sid)) <= Len(sess[sid].mrbContent)
        /\ Len(ProgramOf(sid)) <= 1

\* C24: at every point during and after a sequence of definePixelsAPI
\* calls, the 'set' and 'update' methods of the Pixels class, once defined,
\* point to callbacks that are in the function table; and as long as a
\* call has not re-defined both methods with its new callbacks, none of
\* the previous callbacks has been removed.
Redefining ==
    defineCall.pc \in {"addSet", "defineSet", "addUpdate", "defineUpdate"}

C24_AtomicCallbackSwap ==
    /\ classMethods.set # 0 => classMethods.set \in functionTable
    /\ classMethods.update # 0 => classMethods.update \in functionTable
    /\ Redefining =>
          \A i \in DOMAIN defineCall.oldCallbacks :
              defineCall.oldCallbacks[i] \in functionTable
    /\ defineCall.pc = "removeOld" =>
          /\ classMethods.set = defineCall.setPixelCallback
          /\ classMethods.update = defineCall.updateCallback
          /\ \A i \in DOMAIN defineCall.oldCallbacks :
                defineCall.oldCallbacks[i] # classMethods.set
                /\ defineCall.oldCallbacks[i] # classMethods.update

\* a second call is half way: 'set' has the new callback, 'update' still
\* the previous one, and all four callbacks are in the function table
C24_Witness ==
    /\ defineCount = 1
    /\ defineCall.pc = "defineUpdate"
    /\ classMethods.set = defineCall.setPixelCallback
    /\ classMethods.update = defineCall.oldCallbacks[2]
    /\ Cardinality(functionTable) = 4

\* C25: at every point during and after a sequence of definePixelsAPI
\* calls, the global constant PIXELS, once set, refers to an instance
\* that is allocated (the previous instance is freed only after the new
\* one is published).
C25_PixelsNeverFreed == PIXELS # 0 => PIXELS \in liveInstances

\* C28: at most one runBytecode call is at its await of the execution; a
\* call made while isRunning is true or without a module has allocated
\* nothing and started nothing; a started call holds exactly one buffer
\* until it ends and has freed it exactly once when it has ended, on the
\* success and on the error path; isRunning is true exactly while a call
\* is in flight; the heap holds the buffers of the calls in flight and
\* nothing else.
RunsInFlight == {i \in DOMAIN runCalls : runCalls[i].pc = "ccall"}

C28_OneExecutionInFlight ==
    /\ Cardinality(RunsInFlight) <= 1
    /\ isRunning <=> RunsInFlight # {}
    /\ heap = {runCalls[i].bytecodePtr : i \in RunsInFlight}
    /\ \A i \in DOMAIN runCalls :
          /\ runCalls[i].pc = "returned" =>
                runCalls[i].bytecodePtr = 0 /\ runCalls[i].frees = 0
          /\ runCalls[i].pc = "ccall" =>
                runCalls[i].bytecodePtr # 0 /\ runCalls[i].frees = 0
          /\ runCalls[i].pc = "done" =>
                runCalls[i].frees =
                    IF runCalls[i].bytecodePtr # 0 THEN 1 ELSE 0

\* a call was turned away while another one was running, that one has
\* ended with success and freed its buffer, and a later call was started
\* and has ended with an error after freeing its own
C28_Witness ==
    \E i, j, k \in DOMAIN runCalls :
        /\ i < j /\ j < k
        /\ runCalls[i].pc = "done" /\ runCalls[i].outcome = "success"
        /\ runCalls[i].frees = 1
        /\ runCalls[j].pc = "returned"
        /\ runCalls[k].pc = "done" /\ runCalls[k].outcome = "error"
        /\ runCalls[k].frees = 1
        /\ ~isRunning

\* C29: in every state, isRunning implies that runSampleBtn and
\* runCustomBtn are both disabled, and an enabled runCustomBtn implies
\* that customBytecode is not null.
C29_ButtonsFollowState ==
    /\ isRunning => runSampleBtn.disabled /\ runCustomBtn.disabled
    /\ ~runCustomBtn.disabled => customBytecode # 0

\* C30: in every step in which a switchBoard(id) call returns, a result
\* of true comes with currentBoardId = id and with the configuration of
\* board id as currentBoard, and a call with an id that is not registered
\* returns false and leaves currentBoard and currentBoardId as they were.
Returns(i) ==
    /\ switchCalls'[i].result # "pending"
    /\ i \in DOMAIN switchCalls => switchCalls[i].result = "pending"

C30_SwitchBoardResult ==
    [][\A i \in DOMAIN switchCalls' :
          Returns(i) =>
            /\ switchCalls'[i].result = "true" =>
                  /\ currentBoardId' = switchCalls'[i].boardId
                  /\ currentBoard' = switchCalls'[i].boardId
            /\ Find(availableBoards, switchCalls'[i].boardId) = 0 =>
                  /\ switchCalls'[i].result = "false"
                  /\ UNCHANGED <<currentBoard, currentBoardId>>]_vars

====
